---- MODULE Spec2Model ----
(***************************************************************************)
(* Model of functions/dns_resolver.py: resolve_domains_async, the worker   *)
(* _resolve_one with its attempt body _do_work, the retry loop, the        *)
(* asyncio.Semaphore gate and the process-global SimpleTTLCache.           *)
(*                                                                         *)
(* The program runs on one asyncio event loop: the code between two awaits *)
(* is atomic.  Every action below is one such run of one task: it starts   *)
(* where the task was suspended (task creation, the semaphore, a pending   *)
(* resolver.resolve, the backoff sleep) and runs to the next suspension.   *)
(* The upstream resolver is the environment: each pending query is         *)
(* answered by a nondeterministic outcome.                                 *)
(***************************************************************************)
EXTENDS Integers, Sequences, FiniteSets, TLC

\* ---------------------------------------------------------------- bounds
MaxRetries == 2
MaxConc == 2
MaxTime == 1

\* ------------------------------------------------------ program constants
MAX_CNAME_DEPTH == 8

\* random.random() returns r / RandomSteps for r in 0..RandomSteps - 1.
\* Sleep durations are counted in units of 0.1 s / RandomSteps, so the base
\* of the backoff, 0.1 s, is RandomSteps units.
RandomSteps == 2
BackoffBase == RandomSteps
Randoms == 0..(RandomSteps - 1)

Names == {"a", "b"}
CachedTypes == {"CNAME", "A", "AAAA", "NS"}
RTypes == CachedTypes \cup {"RRSIG", "DNSKEY"}

\* Exception classes a resolver.resolve call can raise, by class name.
\* "DNSException" is any other dns.exception.DNSException, "OSError" any
\* exception that is not a DNSException.
ErrKinds == {"NXDOMAIN", "NoAnswer", "NoNameservers", "Timeout", "DNSException", "OSError"}
AnsKinds == {"ans", "empty"}
AllKinds == AnsKinds \cup ErrKinds
\* Upstream of the batch specification: answers, negative answers, timeouts.
BatchKinds == {"ans", "NoAnswer", "Timeout"}

\* rrset.ttl of an answer; NoTTL: the answer carries no usable ttl.
NoTTL == -1
TTLs == {0}
CacheTtlDefaults == {1}

\* None, as the value of result["error"], result["metrics"], result["trace"],
\* of a nameserver field, and of the argument of a hook not yet called.
NoError == [type |-> "None", attempts |-> 0]
NoMetrics == [retries |-> -1]
NoTrace == [nameserver |-> "-"]
NoNameserver == "None"
NoHookArg == [domain |-> "-"]

\* The `nameservers` argument, and resolver.nameservers as adns.Resolver()
\* leaves it (<<>>: None or an empty list).
NameserverArgs == {<<>>, <<"ns1", "ns2">>}
ResolverDefaults == {<<>>, <<"ns0">>}
NotReturned == << [domain |-> "-"] >>

\* function_app.dns_resolve: the HTTP request.  The query parameter `domains`
\* is its comma-separated segments (<<"">>: the empty string); the body is
\* what req.get_json() makes of it ("invalid": it raises ValueError) and, for
\* a JSON object, the value under its "domains" key.
NoJson == [t |-> "missing", v |-> <<>>]
JsonValues ==
    {NoJson, [t |-> "list", v |-> <<>>], [t |-> "list", v |-> <<"a", "b">>],
     [t |-> "str", v |-> <<"a">>]}
QueryParams ==
    {[given |-> FALSE, segs |-> <<>>]}
    \cup [given : {TRUE}, segs : {<<"">>, <<" ", "">>, <<"a", " b">>, <<"a", "">>}]
Bodies ==
    [json : {"invalid", "array", "null"}, domains : {NoJson}]
    \cup [json : {"object"}, domains : JsonValues]
Requests == [query : QueryParams, body : Bodies]
\* No HTTP request: resolve_domains_async is called directly.
NoRequest == [query |-> [given |-> FALSE, segs |-> <<>>],
              body |-> [json |-> "-", domains |-> NoJson]]
NoResponse == [status |-> 0, cause |-> "-", body |-> <<>>]
\* resolve_domains_async has not been called.
NotCalled == << [domain |-> "?"] >>
\* DNS_CONCURRENCY of the endpoint's environment (a negative value makes
\* asyncio.Semaphore raise ValueError).
EnvConcurrency == {-1, 1}

VARIABLES
    cfg,        \* arguments of resolve_domains_async
    upstream,   \* the upstream resolver of the batch: the outcome kinds it can
                \* produce, the rrset.ttl its answers carry, the names its CNAME
                \* records target, and whether it is repeatable (the same query
                \* gets the same outcome every time, as the tests' FakeResolver)
    asked,      \* repeatable upstream: (name, rtype) -> the outcome it gave
    now,        \* time.monotonic(), in TTL units
    cache,      \* _GLOBAL_CACHE._data: (name, rtype) -> (exp, val)
    sem,        \* sem._value: free permits
    tasks,      \* one _resolve_one task per input domain
    completed,  \* task indices in the order the tasks finished
    results,    \* what resolve_domains_async returned
    request,    \* the HTTP request given to dns_resolve
    response    \* the HTTP response to it

vars == <<cfg, upstream, asked, now, cache, sem, tasks, completed, results,
          request, response>>

Workers == 1..Len(cfg.domains)

\* ------------------------------------------------------------ TTL cache

Key(name, rtype) == <<name, rtype>>

\* Mutant: an entry is already expired at its expiry time.
CacheHitStrict(c, name, rtype) ==
    /\ Key(name, rtype) \in DOMAIN c
    /\ now < c[Key(name, rtype)].exp

\* SimpleTTLCache.get: the value returned (only meaningful on a hit).
CacheHit(c, name, rtype) ==
    /\ Key(name, rtype) \in DOMAIN c
    /\ ~(now > c[Key(name, rtype)].exp)

\* Mutant: get never deletes.
CacheAfterGetKeeps(c, name, rtype) == c

\* SimpleTTLCache.get: the map after the call (an expired entry is deleted).
CacheAfterGet(c, name, rtype) ==
    IF Key(name, rtype) \in DOMAIN c /\ now > c[Key(name, rtype)].exp
    THEN [k \in DOMAIN c \ {Key(name, rtype)} |-> c[k]]
    ELSE c

\* Mutant: a set on an existing key replaces the value and keeps the expiry.
CacheSetKeepsExpiry(c, name, rtype, value, ttl) ==
    [k \in DOMAIN c \cup {Key(name, rtype)} |->
        IF k = Key(name, rtype)
        THEN [exp |-> IF k \in DOMAIN c THEN c[k].exp ELSE now + ttl, val |-> value]
        ELSE c[k]]

\* Mutant: the first store of a key wins, a later set leaves the entry.
CacheSetFirstWins(c, name, rtype, value, ttl) ==
    IF Key(name, rtype) \in DOMAIN c
    THEN c
    ELSE [k \in DOMAIN c \cup {Key(name, rtype)} |->
            IF k = Key(name, rtype) THEN [exp |-> now + ttl, val |-> value] ELSE c[k]]

\* SimpleTTLCache.set, ttl given.
CacheSet(c, name, rtype, value, ttl) ==
    [k \in DOMAIN c \cup {Key(name, rtype)} |->
        IF k = Key(name, rtype) THEN [exp |-> now + ttl, val |-> value] ELSE c[k]]

\* `try: ttl = ans.rrset.ttl  except Exception: ttl = cache_ttl_default`
AnswerTtl(out) == IF out.ttl = NoTTL THEN cfg.cache_ttl_default ELSE out.ttl

\* ----------------------------------------------------- upstream resolver

\* The record an answer of type rtype for name carries.
Rec(name, rtype) == <<rtype, name>>

Outcomes(qname, qtype) ==
    {[kind |-> "ans", target |-> n, ttl |-> upstream.ttl] :
        n \in (IF qtype = "CNAME" THEN upstream.aliases ELSE {qname})}
    \cup {[kind |-> k, target |-> qname, ttl |-> NoTTL] : k \in {"empty"} \cup ErrKinds}

\* Mutant: the NXDOMAIN test is missing, so NXDOMAIN falls through to the
\* DNSException test (NXDOMAIN is a DNSException).
IsTransientNoNxdomain(exc) ==
    IF exc = "NoAnswer" THEN FALSE
    ELSE exc \in {"NXDOMAIN", "NoNameservers", "Timeout", "DNSException"}

\* Mutant: only the resolver's Timeout is transient.
IsTransientOnlyTimeout(exc) == exc = "Timeout"

_is_transient_error(exc) ==
    IF exc = "NXDOMAIN" THEN FALSE
    ELSE IF exc = "NoAnswer" THEN FALSE
    ELSE IF exc = "NoNameservers" THEN TRUE
    ELSE IF exc = "Timeout" THEN TRUE
    ELSE IF exc = "DNSException" THEN TRUE
    ELSE FALSE

\* ------------------------------------------------------------ the worker

NewResult(d) ==
    [domain |-> d, resolvable |-> FALSE, ip_addresses |-> <<>>, name_servers |-> <<>>,
     dnssec |-> "unknown", error |-> NoError, metrics |-> NoMetrics, trace |-> NoTrace]

NewTask(d) ==
    [pc |-> "new", domain |-> d, attempt |-> 0, attempts |-> 0, last_error |-> "None",
     name |-> d, depth |-> 0, ip_set |-> <<>>, rrsig_present |-> FALSE,
     qname |-> "-", qtype |-> "-", sleeps |-> 0, backoff |-> 0, sleep_for |-> 0,
     hook_calls |-> 0, hook_arg |-> NoHookArg, result |-> NewResult(d)]

\* The locals of _do_work go out of scope when the attempt ends.
DropLocals(t) ==
    [t EXCEPT !.name = t.domain, !.depth = 0, !.ip_set = <<>>, !.rrsig_present = FALSE,
              !.qname = "-", !.qtype = "-"]

\* `await resolver.resolve(qn, qt)`: the task is suspended on the query.
Await(m, qn, qt) ==
    [m EXCEPT !.t.pc = "query", !.t.qname = qn, !.t.qtype = qt]

\* resolver.nameservers after `if nameservers: resolver.nameservers = nameservers`.
ResolverNameservers ==
    IF cfg.nameservers # <<>> THEN cfg.nameservers ELSE upstream.nameservers

\* resolver.nameservers[0] if getattr(resolver, "nameservers", None) else None
ResolvedBy ==
    IF ResolverNameservers # <<>> THEN ResolverNameservers[1] ELSE NoNameserver

\* Mutant: a result with an error is never resolvable.
FinishForcesUnresolvable(m) ==
    LET t == m.t
        metrics == [retries |-> t.attempts - 1, resolved_by_nameserver |-> ResolvedBy]
        r1 == [t.result EXCEPT !.metrics = metrics,
                               !.trace = [nameserver |-> metrics.resolved_by_nameserver]]
        r2 == IF t.last_error # "None"
              THEN [r1 EXCEPT !.error = [type |-> t.last_error, attempts |-> t.attempts,
                                         last_nameserver |-> metrics.resolved_by_nameserver],
                              !.resolvable = FALSE]
              ELSE r1
        called == cfg.metrics_hook # "none"
    IN [m EXCEPT !.t = [DropLocals(t) EXCEPT
                            !.pc = "done", !.result = r2,
                            !.hook_calls = IF called THEN @ + 1 ELSE @,
                            !.hook_arg = IF called THEN r2 ELSE @]]

\* Mutant: the error names the last nameserver of the list.
FinishLastNameserver(m) ==
    LET t == m.t
        metrics == [retries |-> t.attempts - 1, resolved_by_nameserver |-> ResolvedBy]
        r1 == [t.result EXCEPT !.metrics = metrics,
                               !.trace = [nameserver |-> metrics.resolved_by_nameserver]]
        r2 == IF t.last_error # "None"
              THEN [r1 EXCEPT !.error = [type |-> t.last_error, attempts |-> t.attempts,
                                         last_nameserver |->
                                            IF ResolverNameservers # <<>>
                                            THEN ResolverNameservers[Len(ResolverNameservers)]
                                            ELSE NoNameserver],
                              !.resolvable = Len(r1.ip_addresses) > 0]
              ELSE r1
        called == cfg.metrics_hook # "none"
    IN [m EXCEPT !.t = [DropLocals(t) EXCEPT
                            !.pc = "done", !.result = r2,
                            !.hook_calls = IF called THEN @ + 1 ELSE @,
                            !.hook_arg = IF called THEN r2 ELSE @]]

\* Mutant: what the metrics hook raises escapes _resolve_one.
FinishHookRaises(m) ==
    LET t == m.t
        metrics == [retries |-> t.attempts - 1, resolved_by_nameserver |-> ResolvedBy]
        r1 == [t.result EXCEPT !.metrics = metrics,
                               !.trace = [nameserver |-> metrics.resolved_by_nameserver]]
        r2 == IF t.last_error # "None"
              THEN [r1 EXCEPT !.error = [type |-> t.last_error, attempts |-> t.attempts,
                                         last_nameserver |-> metrics.resolved_by_nameserver],
                              !.resolvable = Len(r1.ip_addresses) > 0]
              ELSE r1
        called == cfg.metrics_hook # "none"
    IN [m EXCEPT !.t = [DropLocals(t) EXCEPT
                            !.pc = IF cfg.metrics_hook = "raises" THEN "raised" ELSE "done",
                            !.result = r2,
                            !.hook_calls = IF called THEN @ + 1 ELSE @,
                            !.hook_arg = IF called THEN r2 ELSE @]]

\* After the retry loop: metrics, trace, the structured error, the metrics
\* hook (called with the result; what it raises is swallowed).
Finish(m) ==
    LET t == m.t
        metrics == [retries |-> t.attempts - 1, resolved_by_nameserver |-> ResolvedBy]
        r1 == [t.result EXCEPT !.metrics = metrics,
                               !.trace = [nameserver |-> metrics.resolved_by_nameserver]]
        r2 == IF t.last_error # "None"
              THEN [r1 EXCEPT !.error = [type |-> t.last_error, attempts |-> t.attempts,
                                         last_nameserver |-> metrics.resolved_by_nameserver],
                              !.resolvable = Len(r1.ip_addresses) > 0]
              ELSE r1
        called == cfg.metrics_hook # "none"
    IN [m EXCEPT !.t = [DropLocals(t) EXCEPT
                            !.pc = "done", !.result = r2,
                            !.hook_calls = IF called THEN @ + 1 ELSE @,
                            !.hook_arg = IF called THEN r2 ELSE @]]

\* Mutant: the permit is not given back when the attempt succeeds.
SucceedKeepsPermit(m) ==
    Finish([m EXCEPT !.t.last_error = "None",
                     !.t.result.resolvable = Len(m.t.result.ip_addresses) > 0])

\* Mutant: the error of an earlier attempt is not cleared on success.
SucceedKeepsError(m) ==
    Finish([m EXCEPT !.s = @ + 1,
                     !.t.result.resolvable = Len(m.t.result.ip_addresses) > 0])

\* _do_work returned: leave `async with sem`, clear last_error, break.
Succeed(m) ==
    Finish([m EXCEPT !.s = @ + 1,
                     !.t.last_error = "None",
                     !.t.result.resolvable = Len(m.t.result.ip_addresses) > 0])

\* Mutant: the exponent of the backoff is the number of attempts made.
BackoffFromOne(attempt) == (2 ^ (attempt + 1)) * BackoffBase

\* backoff = (2 ** attempt) * 0.1
Backoff(attempt) == (2 ^ attempt) * BackoffBase

\* Mutant: the task keeps its permit while it sleeps.
ToSleepHoldsPermit(m) ==
    [m EXCEPT !.s = @ - 1,
              !.t = [DropLocals(m.t) EXCEPT !.pc = "sleep", !.sleeps = @ + 1,
                                            !.backoff = Backoff(m.t.attempt)]]

\* Mutant: the result is built anew for the next attempt.
ToSleepResetsResult(m) ==
    [m EXCEPT !.t = [DropLocals(m.t) EXCEPT !.pc = "sleep", !.sleeps = @ + 1,
                                            !.backoff = Backoff(m.t.attempt),
                                            !.result = NewResult(m.t.domain)]]

\* The retry loop goes on: the task will sleep before its next attempt.
ToSleep(m) ==
    [m EXCEPT !.t = [DropLocals(m.t) EXCEPT !.pc = "sleep", !.sleeps = @ + 1,
                                            !.backoff = Backoff(m.t.attempt)]]

\* Mutant: a failure that ends the retry loop escapes _resolve_one.
FailEscapes(m, exc) ==
    LET m1 == [m EXCEPT !.s = @ + 1, !.t.last_error = exc]
    IN IF ~_is_transient_error(exc) \/ m.t.attempt = cfg.retries
       THEN [m1 EXCEPT !.t = [DropLocals(m1.t) EXCEPT !.pc = "raised"]]
       ELSE ToSleep(m1)

\* Mutant: the metrics hook is called after every failed attempt too.
FailCallsHook(m, exc) ==
    LET called == cfg.metrics_hook # "none"
        m1 == [m EXCEPT !.s = @ + 1, !.t.last_error = exc,
                        !.t.hook_calls = IF called THEN @ + 1 ELSE @,
                        !.t.hook_arg = IF called THEN m.t.result ELSE @]
    IN IF ~_is_transient_error(exc) \/ m.t.attempt = cfg.retries
       THEN Finish(m1)
       ELSE ToSleep(m1)

\* Mutant: the last allowed attempt is taken to be index retries - 1.
FailOffByOne(m, exc) ==
    LET m1 == [m EXCEPT !.s = @ + 1, !.t.last_error = exc]
    IN IF ~_is_transient_error(exc) \/ m.t.attempt + 1 >= cfg.retries
       THEN Finish(m1)
       ELSE ToSleep(m1)

\* The attempt raised exc: leave `async with sem`, record it, retry or stop.
Fail(m, exc) ==
    LET m1 == [m EXCEPT !.s = @ + 1, !.t.last_error = exc]
    IN IF ~_is_transient_error(exc) \/ m.t.attempt = cfg.retries
       THEN Finish(m1)
       ELSE ToSleep(m1)

\* Mutant: signed only when both RRSIG and DNSKEY are present.
OnDnskeyBoth(m, out) ==
    LET dnskey_present == out.kind = "ans"
    IN IF out.kind \in AnsKinds \cup {"NoAnswer"}
       THEN Succeed([m EXCEPT !.t.result.dnssec =
                        IF m.t.rrsig_present /\ dnskey_present THEN "signed-present"
                        ELSE "unsigned"])
       ELSE Succeed([m EXCEPT !.t.result.dnssec = "unknown"])

\* Mutant: a failure of the DNSKEY query leaves the probe once the verdict
\* on the RRSIG answer is written.
OnDnskeyRaisesAfterVerdict(m, out) ==
    LET dnskey_present == out.kind = "ans"
        verdict == IF m.t.rrsig_present \/ dnskey_present THEN "signed-present"
                   ELSE "unsigned"
    IN IF out.kind \in AnsKinds \cup {"NoAnswer"}
       THEN Succeed([m EXCEPT !.t.result.dnssec = verdict])
       ELSE Fail([m EXCEPT !.t.result.dnssec = verdict], out.kind)

\* DNSSEC probe, second query answered.
OnDnskey(m, out) ==
    LET dnskey_present == out.kind = "ans"
    IN IF out.kind \in AnsKinds \cup {"NoAnswer"}
       THEN Succeed([m EXCEPT !.t.result.dnssec =
                        IF m.t.rrsig_present \/ dnskey_present THEN "signed-present"
                        ELSE "unsigned"])
       ELSE Succeed([m EXCEPT !.t.result.dnssec = "unknown"])

\* Mutant: every failure of the RRSIG query counts as "not present".
OnRrsigSwallow(m, out) ==
    Await([m EXCEPT !.t.rrsig_present = (out.kind = "ans")], m.t.domain, "DNSKEY")

\* Mutant: the probe has no outer try/except, a failure ends the attempt.
OnRrsigPropagate(m, out) ==
    IF out.kind \in AnsKinds \cup {"NoAnswer"}
    THEN Await([m EXCEPT !.t.rrsig_present = (out.kind = "ans")], m.t.domain, "DNSKEY")
    ELSE Fail(m, out.kind)

\* DNSSEC probe, first query answered.
OnRrsig(m, out) ==
    IF out.kind \in AnsKinds \cup {"NoAnswer"}
    THEN Await([m EXCEPT !.t.rrsig_present = (out.kind = "ans")], m.t.domain, "DNSKEY")
    ELSE Succeed([m EXCEPT !.t.result.dnssec = "unknown"])

\* Mutant: the RRSIG query asks for the original domain.
DnssecOriginal(m) == Await(m, m.t.domain, "RRSIG")

\* The DNSSEC probe starts: RRSIG of the chased name, never cached.
Dnssec(m) == Await(m, m.t.name, "RRSIG")

\* NS phase: cache first, for the original domain.
Ns(m) ==
    LET d == m.t.domain
        m1 == [m EXCEPT !.c = CacheAfterGet(m.c, d, "NS")]
    IN IF CacheHit(m.c, d, "NS")
       THEN Dnssec([m1 EXCEPT !.t.result.name_servers = m.c[Key(d, "NS")].val])
       ELSE Await(m1, d, "NS")

OnNs(m, out) ==
    IF out.kind \in AnsKinds
    THEN LET ns_list == IF out.kind = "ans" THEN <<Rec(m.t.domain, "NS")>> ELSE <<>>
         IN Dnssec([m EXCEPT !.c = CacheSet(m.c, m.t.domain, "NS", ns_list, AnswerTtl(out)),
                             !.t.result.name_servers = ns_list])
    ELSE IF out.kind = "NoAnswer"
    THEN Dnssec([m EXCEPT !.t.result.name_servers = <<>>])
    ELSE Fail(m, out.kind)

\* A and AAAA, cache first, for the chased name.
RECURSIVE Addr(_, _)
\* Mutant: the name-server phase follows the A lookup at once.
AfterAddrSkipsAaaa(m, rtype, ips) ==
    LET m1 == [m EXCEPT !.t.ip_set = @ \o ips]
    IN Ns([m1 EXCEPT !.t.result.ip_addresses = m1.t.ip_set])

AfterAddr(m, rtype, ips) ==
    LET m1 == [m EXCEPT !.t.ip_set = @ \o ips]
    IN IF rtype = "A" THEN Addr(m1, "AAAA")
       ELSE Ns([m1 EXCEPT !.t.result.ip_addresses = m1.t.ip_set])

Addr(m, rtype) ==
    LET n == m.t.name
        m1 == [m EXCEPT !.c = CacheAfterGet(m.c, n, rtype)]
    IN IF CacheHit(m.c, n, rtype)
       THEN AfterAddr(m1, rtype, m.c[Key(n, rtype)].val)
       ELSE Await(m1, n, rtype)

\* Mutant: an empty A or AAAA answer is stored like any other.
OnAddrCachesEmpty(m, out) ==
    LET n == m.t.name
        rtype == m.t.qtype
        ips == IF out.kind = "ans" THEN <<Rec(n, rtype)>> ELSE <<>>
    IN IF out.kind \in AnsKinds
       THEN AfterAddr([m EXCEPT !.c = CacheSet(m.c, n, rtype, ips, AnswerTtl(out))],
                      rtype, ips)
       ELSE Fail(m, out.kind)

\* An A or AAAA query answered: records are stored and gathered, an empty
\* answer is neither, an exception ends the attempt.
OnAddr(m, out) ==
    LET n == m.t.name
        rtype == m.t.qtype
    IN IF out.kind = "ans"
       THEN AfterAddr([m EXCEPT !.c = CacheSet(m.c, n, rtype, <<Rec(n, rtype)>>, AnswerTtl(out))],
                      rtype, <<Rec(n, rtype)>>)
       ELSE IF out.kind = "empty"
       THEN AfterAddr(m, rtype, <<>>)
       ELSE Fail(m, out.kind)

\* CNAME chase: the top of one iteration of `for depth in range(MAX_CNAME_DEPTH)`.
RECURSIVE Chase(_)
\* Mutant: no same-name check, only the depth limit ends the chase.
FollowNoLoopCheck(m, cname_target) ==
    Chase([m EXCEPT !.t.name = cname_target, !.t.depth = @ + 1])

Follow(m, cname_target) ==
    IF cname_target = m.t.name
    THEN Fail(m, "RuntimeError")
    ELSE Chase([m EXCEPT !.t.name = cname_target, !.t.depth = @ + 1])

\* Mutant: the chase allows one more iteration.
ChaseNine(m) ==
    LET n == m.t.name
        m1 == [m EXCEPT !.c = CacheAfterGet(m.c, n, "CNAME")]
    IN IF m.t.depth >= MAX_CNAME_DEPTH + 1
       THEN Addr(m, "A")
       ELSE IF CacheHit(m.c, n, "CNAME")
       THEN Follow(m1, m.c[Key(n, "CNAME")].val)
       ELSE Await(m1, n, "CNAME")

Chase(m) ==
    LET n == m.t.name
        m1 == [m EXCEPT !.c = CacheAfterGet(m.c, n, "CNAME")]
    IN IF m.t.depth >= MAX_CNAME_DEPTH
       THEN Addr(m, "A")
       ELSE IF CacheHit(m.c, n, "CNAME")
       THEN Follow(m1, m.c[Key(n, "CNAME")].val)
       ELSE Await(m1, n, "CNAME")

OnCname(m, out) ==
    IF out.kind = "ans"
    THEN Follow([m EXCEPT !.c = CacheSet(m.c, m.t.name, "CNAME", out.target, AnswerTtl(out))],
                out.target)
    ELSE IF out.kind \in {"empty", "NoAnswer"}
    THEN Addr(m, "A")
    ELSE Fail(m, out.kind)

\* Mutant: the attempt starts without waiting for a permit.
BeginAttemptUngated(m) ==
    Chase([m EXCEPT !.s = @ - 1,
                    !.t.attempts = m.t.attempt + 1,
                    !.t.name = m.t.domain, !.t.depth = 0, !.t.ip_set = <<>>])

\* Mutant: a retry resumes at the address phase.
BeginAttemptSkipsChase(m) ==
    LET m1 == [m EXCEPT !.s = @ - 1,
                        !.t.attempts = m.t.attempt + 1,
                        !.t.name = m.t.domain, !.t.depth = 0, !.t.ip_set = <<>>]
    IN IF m.s > 0
       THEN (IF m.t.attempt > 0 THEN Addr(m1, "A") ELSE Chase(m1))
       ELSE [m EXCEPT !.t.pc = "acquire", !.t.attempts = m.t.attempt + 1]

\* One iteration of the retry loop up to its first suspension.
BeginAttempt(m) ==
    IF m.s > 0
    THEN Chase([m EXCEPT !.s = @ - 1,
                         !.t.attempts = m.t.attempt + 1,
                         !.t.name = m.t.domain, !.t.depth = 0, !.t.ip_set = <<>>])
    ELSE [m EXCEPT !.t.pc = "acquire", !.t.attempts = m.t.attempt + 1]

OnAnswer(m, out) ==
    CASE m.t.qtype = "CNAME" -> OnCname(m, out)
      [] m.t.qtype \in {"A", "AAAA"} -> OnAddr(m, out)
      [] m.t.qtype = "NS" -> OnNs(m, out)
      [] m.t.qtype = "RRSIG" -> OnRrsig(m, out)
      [] m.t.qtype = "DNSKEY" -> OnDnskey(m, out)

\* Mutant: the results in the order the tasks finished.
GatherCompletionOrder == [i \in Workers |-> tasks[completed[i]].result]

\* asyncio.gather: the results in the order of the task list.
GatherResults == [i \in Workers |-> tasks[i].result]

\* ---------------------------------------------------------------- actions

M(w) == [t |-> tasks[w], c |-> cache, s |-> sem]

Apply(w, m) ==
    /\ tasks' = [tasks EXCEPT ![w] = m.t]
    /\ cache' = m.c
    /\ sem' = m.s
    /\ completed' = IF m.t.pc = "done" /\ tasks[w].pc # "done"
                    THEN Append(completed, w) ELSE completed
    /\ UNCHANGED <<cfg, upstream, now, results, request, response>>

\* The outcomes the upstream can give to the pending query of task w.
Answers(w) ==
    LET k == Key(tasks[w].qname, tasks[w].qtype)
    IN IF upstream.repeatable /\ k \in DOMAIN asked
       THEN {asked[k]}
       ELSE {out \in Outcomes(k[1], k[2]) : out.kind \in upstream.kinds}

Record(w, out) ==
    LET k == Key(tasks[w].qname, tasks[w].qtype)
    IN IF upstream.repeatable
       THEN [x \in DOMAIN asked \cup {k} |-> IF x = k THEN out ELSE asked[x]]
       ELSE asked

AllStarted == \A w \in Workers : tasks[w].pc # "new"

\* The event loop runs the first step of each created task, in creation order.
Start(w) ==
    /\ tasks[w].pc = "new"
    /\ \A v \in Workers : v < w => tasks[v].pc # "new"
    /\ Apply(w, BeginAttempt(M(w)))
    /\ UNCHANGED asked

\* A task waiting on the semaphore gets a permit.
Acquire(w) ==
    /\ AllStarted
    /\ tasks[w].pc = "acquire"
    /\ sem > 0
    /\ Apply(w, BeginAttempt(M(w)))
    /\ UNCHANGED asked

\* await asyncio.sleep(backoff + random.random() * backoff), random.random()
\* being r / RandomSteps.
Jitter(m, r) ==
    IF m.t.pc = "sleep"
    THEN [m EXCEPT !.t.sleep_for = m.t.backoff + (r * m.t.backoff) \div RandomSteps]
    ELSE m

\* The pending query of a task is answered by the upstream resolver; when
\* the answer makes the attempt fail and the loop go on, the task goes to
\* sleep.
Respond(w) ==
    /\ AllStarted
    /\ tasks[w].pc = "query"
    /\ \E out \in Answers(w) :
          LET m == OnAnswer(M(w), out)
          IN /\ \E r \in (IF m.t.pc = "sleep" THEN Randoms ELSE {0}) :
                    Apply(w, Jitter(m, r))
             /\ asked' = Record(w, out)

\* asyncio.wait_for cancels the attempt and raises TimeoutError.
AttemptTimeout(w) ==
    /\ AllStarted
    /\ cfg.per_domain_timeout
    /\ tasks[w].pc = "query"
    /\ Apply(w, Fail(M(w), "TimeoutError"))
    /\ UNCHANGED asked

\* The backoff sleep ends: the next iteration of the retry loop.
Wake(w) ==
    /\ AllStarted
    /\ tasks[w].pc = "sleep"
    /\ Apply(w, BeginAttempt([M(w) EXCEPT !.t.attempt = @ + 1,
                                          !.t.backoff = 0, !.t.sleep_for = 0]))
    /\ UNCHANGED asked

Tick ==
    /\ now < MaxTime
    /\ now' = now + 1
    /\ UNCHANGED <<cfg, upstream, asked, cache, sem, tasks, completed, results,
                   request, response>>

\* asyncio.gather returns; when dns_resolve made the call it answers with
\* json.dumps of the results.
Gather ==
    /\ results = NotReturned
    /\ \A w \in Workers : tasks[w].pc = "done"
    /\ results' = GatherResults
    /\ response' = IF request = NoRequest THEN response
                   ELSE [status |-> 200, cause |-> "-", body |-> GatherResults]
    /\ UNCHANGED <<cfg, upstream, asked, now, cache, sem, tasks, completed, request>>

\* str.strip of a segment of the query parameter.
Strip(seg) ==
    CASE seg = " " -> ""
      [] seg = " b" -> "b"
      [] OTHER -> seg

\* [d.strip() for d in domains_param.split(",") if d.strip()]
SplitStrip(segs) ==
    LET RECURSIVE Keep(_)
        Keep(i) == IF i > Len(segs) THEN <<>>
                   ELSE (IF Strip(segs[i]) # "" THEN <<Strip(segs[i])>> ELSE <<>>)
                        \o Keep(i + 1)
    IN Keep(1)

\* Mutant: a body that is not a JSON object counts as an empty object.
ParseDomainsTolerant(req) ==
    IF req.query.given /\ req.query.segs # <<"">>
    THEN [raised |-> FALSE, domains |-> [t |-> "list", v |-> SplitStrip(req.query.segs)]]
    ELSE [raised |-> FALSE,
          domains |-> IF req.body.json = "object" THEN req.body.domains ELSE NoJson]

\* dns_resolve up to its validation: `domains` from the query parameter when
\* it is a non-empty string, else from req_body.get("domains"), where a body
\* that is no JSON counts as {} and a JSON body that is not an object has no
\* get: AttributeError leaves the handler.
ParseDomains(req) ==
    IF req.query.given /\ req.query.segs # <<"">>
    THEN [raised |-> FALSE, domains |-> [t |-> "list", v |-> SplitStrip(req.query.segs)]]
    ELSE IF req.body.json = "invalid"
         THEN [raised |-> FALSE, domains |-> NoJson]
         ELSE IF req.body.json # "object"
              THEN [raised |-> TRUE, domains |-> NoJson]
              ELSE [raised |-> FALSE, domains |-> req.body.domains]

\* not (not domains or not isinstance(domains, list))
ValidDomains(d) == d.t = "list" /\ d.v # <<>>

\* The HTTP trigger runs dns_resolve up to the creation of the batch's tasks:
\* an exception that leaves the handler is answered 500 by the Functions
\* host, invalid `domains` are answered 400, an exception of
\* resolve_domains_async is answered 500 by the handler.
dns_resolve ==
    /\ request # NoRequest
    /\ response = NoResponse
    /\ results = NotCalled
    /\ LET p == ParseDomains(request)
       IN IF p.raised \/ ~ValidDomains(p.domains) \/ cfg.concurrency < 0
          THEN /\ response' =
                    IF p.raised
                    THEN [status |-> 500, cause |-> "handler", body |-> <<>>]
                    ELSE IF ~ValidDomains(p.domains)
                         THEN [status |-> 400, cause |-> "domains", body |-> <<>>]
                         ELSE [status |-> 500, cause |-> "batch", body |-> <<>>]
               /\ UNCHANGED <<cfg, sem, tasks, results>>
          ELSE /\ cfg' = [cfg EXCEPT !.domains = p.domains.v]
               /\ sem' = cfg.concurrency
               /\ tasks' = [i \in 1..Len(p.domains.v) |-> NewTask(p.domains.v[i])]
               /\ results' = NotReturned
               /\ UNCHANGED response
    /\ UNCHANGED <<upstream, asked, now, cache, completed, request>>

TaskStarts == \E w \in Workers : Start(w)
TaskAcquires == \E w \in Workers : Acquire(w)
QueryAnswered == \E w \in Workers : Respond(w)
AttemptTimesOut == \E w \in Workers : AttemptTimeout(w)
SleepEnds == \E w \in Workers : Wake(w)

Next ==
    \/ TaskStarts
    \/ TaskAcquires
    \/ QueryAnswered
    \/ AttemptTimesOut
    \/ SleepEnds
    \/ Tick
    \/ Gather

\* ------------------------------------------------------------ initial states

Configs(domainLists, concs, retrySet, hooks) ==
    [domains : domainLists, concurrency : concs, retries : retrySet,
     per_domain_timeout : BOOLEAN, metrics_hook : hooks,
     cache_ttl_default : CacheTtlDefaults, nameservers : {<<>>}]

\* The resolvers of the tests (FakeResolver: nameservers is None).
Upstreams(kinds, aliases, ttls, repeatable) ==
    [kinds : {kinds}, ttl : ttls, aliases : {aliases}, repeatable : {repeatable},
     nameservers : {<<>>}]

\* The state when resolve_domains_async(c...) has built its resolver u, its
\* semaphore and its tasks.
InitState(c, u) ==
    /\ cfg = c
    /\ upstream = u
    /\ asked = << >>
    /\ now = 0
    /\ cache = << >>
    /\ sem = c.concurrency
    /\ tasks = [i \in 1..Len(c.domains) |-> NewTask(c.domains[i])]
    /\ completed = << >>
    /\ results = NotReturned
    /\ request = NoRequest
    /\ response = NoResponse

InitWith(c, kinds, aliases, ttls, repeatable) ==
    \E u \in Upstreams(kinds, aliases, ttls, repeatable) : InitState(c, u)

\* One domain under every retry budget, and the same domain twice in a row
\* (concurrency 1, no retries: the second task waits for the first and finds
\* the cache the first one left).
UnitConfigs ==
    Configs({<<"a">>}, {1}, 0..MaxRetries, {"none"})
    \cup Configs({<<"a", "a">>}, {1}, {0}, {"none"})

\* An upstream that can produce every outcome on every query (its only CNAME
\* record targets the domain itself), under every `nameservers` argument and
\* resolver default.
Init ==
    \E c \in UnitConfigs : \E ns \in NameserverArgs : \E dflt \in ResolverDefaults :
        \E u \in Upstreams(AllKinds, {"a"}, TTLs \cup {NoTTL}, FALSE) :
            InitState([c EXCEPT !.nameservers = ns], [u EXCEPT !.nameservers = dflt])

Spec == Init /\ [][Next]_vars

\* A repeatable upstream that can produce every outcome (of the transient
\* DNS exceptions: Timeout and NoNameservers), under a per-domain timeout
\* (which may or may not fire).
FixedKinds == AllKinds \ {"DNSException"}

InitFixed ==
    \E c \in UnitConfigs :
        /\ c.per_domain_timeout
        /\ InitWith(c, FixedKinds, Names, TTLs \cup {NoTTL}, TRUE)

SpecFixed == InitFixed /\ [][Next]_vars

\* A batch of several domains, duplicates included, under every concurrency,
\* against an upstream without CNAME records that answers, has no records,
\* or times out.
DomainLists == {<<"a", "a">>, <<"a", "b">>}
BatchRetries == {0, 1}

InitBatch ==
    \E c \in Configs(DomainLists, 1..MaxConc, BatchRetries, {"none"}) :
        InitWith(c, BatchKinds, {}, TTLs, FALSE)

SpecBatch == InitBatch /\ [][Next]_vars

\* Two different domains, one attempt at a time, with and without a metrics
\* hook, under a per-domain timeout, against an upstream that answers, has no
\* records or times out and whose only CNAME record targets "a" (a loop for
\* the first domain).
InitHooks ==
    \E c \in Configs({<<"a", "b">>}, {1}, {1}, {"none", "ok", "raises"}) :
        /\ c.per_domain_timeout
        /\ InitWith(c, BatchKinds, {"a"}, TTLs, FALSE)

SpecHooks == InitHooks /\ [][Next]_vars

\* The HTTP endpoint: a request is pending, the batch's arguments other than
\* `domains` are those dns_resolve reads from the environment, and the
\* upstream answers, has no records or times out.
InitHttp ==
    \E c \in Configs({<<>>}, EnvConcurrency, {1}, {"none"}) :
        \E u \in Upstreams(BatchKinds, {}, TTLs, FALSE) :
            /\ cfg = c
            /\ upstream = u
            /\ asked = << >>
            /\ now = 0
            /\ cache = << >>
            /\ sem = 0
            /\ tasks = << >>
            /\ completed = << >>
            /\ results = NotCalled
            /\ request \in Requests
            /\ response = NoResponse

NextHttp == dns_resolve \/ Next

SpecHttp == InitHttp /\ [][NextHttp]_vars

\* The same domain twice, so that two tasks look up and store the same
\* cache keys in turn: both tasks at once without retry, or one at a time
\* with a retry and a per-domain timeout, against an upstream without CNAME
\* records whose answers carry a TTL or none and may be empty.
CacheKinds == {"ans", "empty", "Timeout"}

InitCache ==
    \E c \in Configs({<<"a", "a">>}, {1, 2}, BatchRetries, {"none"}) :
        /\ (c.concurrency = 2 /\ c.retries = 0 /\ ~c.per_domain_timeout)
              \/ (c.concurrency = 1 /\ c.retries = 1 /\ c.per_domain_timeout)
        /\ InitWith(c, CacheKinds, {}, TTLs \cup {NoTTL}, FALSE)

SpecCache == InitCache /\ [][Next]_vars

\* Two different domains that share one permit, with one retry and a
\* per-domain timeout, against an upstream without CNAME records that
\* answers, has no records or times out, with a fair event loop: a task that
\* can run, a pending query, a backoff sleep and the gathering of the
\* finished tasks are not postponed forever.
InitLive ==
    \E c \in Configs({<<"a", "b">>}, {1}, {1}, {"none"}) :
        /\ c.per_domain_timeout
        /\ InitWith(c, BatchKinds, {}, TTLs, FALSE)

Fairness ==
    /\ WF_vars(TaskStarts)
    /\ WF_vars(TaskAcquires)
    /\ WF_vars(QueryAnswered)
    /\ WF_vars(SleepEnds)
    /\ WF_vars(Gather)

SpecLive == InitLive /\ [][Next]_vars /\ Fairness

\* ------------------------------------------------------------------ claims

Done(w) == tasks[w].pc = "done"
Res(w) == tasks[w].result
InAttempt == {w \in Workers : tasks[w].pc = "query"}

\* What the repeatable upstream answered to the query (n, rtype), if asked.
Asked(n, rtype) == Key(n, rtype) \in DOMAIN asked
AskedKind(n, rtype) == IF Asked(n, rtype) THEN asked[Key(n, rtype)].kind ELSE "-"

Absent == {"NoAnswer", "empty"}
Benign == AnsKinds \cup {"NoAnswer"}
ProbeFailures == ErrKinds \ {"NoAnswer"}
Elems(seq) == {seq[i] : i \in 1..Len(seq)}

\* No query failed otherwise than with NoAnswer, and task w met neither the
\* per-domain timeout nor a CNAME loop.
Undisturbed(w) ==
    /\ \A k \in DOMAIN asked : asked[k].kind \in Benign
    /\ Res(w).error.type \notin {"TimeoutError", "RuntimeError"}

\* The addresses and name servers the upstream's answers amount to.
ExpectedIps(n) ==
    (IF AskedKind(n, "A") = "ans" THEN <<Rec(n, "A")>> ELSE <<>>)
    \o (IF AskedKind(n, "AAAA") = "ans" THEN <<Rec(n, "AAAA")>> ELSE <<>>)
ExpectedNs(d) == IF AskedKind(d, "NS") = "ans" THEN <<Rec(d, "NS")>> ELSE <<>>

\* C1: the batch returns one result per input domain, and result i is the
\* result for domains[i], whatever the order in which the tasks finished.
C1_OrderPreserved ==
    results # NotReturned =>
        /\ Len(results) = Len(cfg.domains)
        /\ \A i \in 1..Len(cfg.domains) : results[i].domain = cfg.domains[i]

C1_Witness ==
    /\ results # NotReturned
    /\ cfg.domains = <<"a", "b">>
    /\ completed = <<2, 1>>

\* C2: at every instant at most `concurrency` tasks are inside an attempt
\* (suspended on a query), also while others retry or have timed out.
C2_ConcurrencyCap == Cardinality(InAttempt) <= cfg.concurrency

C2_Witness ==
    /\ Len(cfg.domains) > cfg.concurrency
    /\ \E w, v \in Workers :
          /\ tasks[w].pc = "query" /\ tasks[w].attempt > 0
          /\ tasks[v].pc = "acquire"

\* C3: a domain whose A lookup returns addresses and whose AAAA lookup fails
\* with NoAnswer ends resolvable, with the addresses and with no error.
C3_NoAnswerNotFatal ==
    \A w \in Workers : \A n \in Names :
        (/\ Done(w)
         /\ AskedKind(n, "A") = "ans"
         /\ AskedKind(n, "AAAA") = "NoAnswer"
         /\ Undisturbed(w))
        => /\ Res(w).resolvable
           /\ Rec(n, "A") \in Elems(Res(w).ip_addresses)
           /\ Res(w).error = NoError

\* C4: a domain whose A and AAAA lookups both fail with NoAnswer still gets
\* its AAAA and NS lookups, and with NS records it ends not resolvable, with
\* the name servers and with no error.
C4_NoAddressesButNs ==
    \A w \in Workers : \A n \in Names :
        (/\ Done(w)
         /\ AskedKind(n, "A") = "NoAnswer"
         /\ Undisturbed(w))
        => /\ Asked(n, "AAAA")
           /\ Asked(tasks[w].domain, "NS")
           /\ (AskedKind(n, "AAAA") = "NoAnswer" /\ AskedKind(tasks[w].domain, "NS") = "ans")
                => /\ ~Res(w).resolvable
                   /\ Res(w).name_servers = <<Rec(tasks[w].domain, "NS")>>
                   /\ Res(w).error = NoError

\* C5: when the A query answers NXDOMAIN the worker makes exactly one attempt
\* under every retry budget (no retry, no backoff sleep) and ends not
\* resolvable with an NXDOMAIN error.
C5_NxdomainTerminal ==
    \A w \in Workers : \A n \in Names :
        (/\ Done(w)
         /\ AskedKind(n, "A") = "NXDOMAIN"
         /\ Res(w).error.type # "TimeoutError")
        => /\ tasks[w].attempts = 1
           /\ tasks[w].sleeps = 0
           /\ Res(w).metrics.retries = 0
           /\ Res(w).error.type = "NXDOMAIN" /\ Res(w).error.attempts = 1
           /\ ~Res(w).resolvable

C5_Witness ==
    \E w \in Workers : \E n \in Names :
        /\ Done(w)
        /\ cfg.retries > 0
        /\ AskedKind(n, "A") = "NXDOMAIN"
        /\ Res(w).error.type = "NXDOMAIN"

\* C6: when the A query times out on every attempt the worker makes exactly
\* retries + 1 attempts and ends not resolvable with a Timeout error and
\* metrics.retries = retries.
C6_TimeoutExhaustsRetries ==
    \A w \in Workers : \A n \in Names :
        (/\ Done(w)
         /\ AskedKind(n, "A") = "Timeout"
         /\ Res(w).error.type # "TimeoutError")
        => /\ tasks[w].attempts = cfg.retries + 1
           /\ tasks[w].sleeps = cfg.retries
           /\ Res(w).metrics.retries = cfg.retries
           /\ Res(w).error.type = "Timeout" /\ Res(w).error.attempts = cfg.retries + 1
           /\ ~Res(w).resolvable

C6_Witness ==
    \E w \in Workers : \E n \in Names :
        /\ Done(w)
        /\ cfg.retries = 2
        /\ AskedKind(n, "A") = "Timeout"
        /\ tasks[w].attempts = 3
        /\ Res(w).error.type = "Timeout"

\* C7: when the CNAME of a name targets that name the worker ends at once
\* with the loop error: one attempt under every retry budget, no query other
\* than CNAME queries, not resolvable.
SelfLoop ==
    \E n \in Names :
        AskedKind(n, "CNAME") = "ans" /\ asked[Key(n, "CNAME")].target = n

C7_CnameLoopTerminal ==
    \A w \in Workers :
        (/\ Done(w)
         /\ SelfLoop
         /\ Res(w).error.type # "TimeoutError")
        => /\ Res(w).error.type = "RuntimeError" /\ Res(w).error.attempts = 1
           /\ tasks[w].attempts = 1
           /\ tasks[w].sleeps = 0
           /\ Res(w).metrics.retries = 0
           /\ ~Res(w).resolvable
           /\ \A k \in DOMAIN asked : k[2] = "CNAME"

C7_Witness ==
    /\ cfg.retries = 2
    /\ SelfLoop
    /\ Done(1)
    /\ Res(1).error.type = "RuntimeError"

\* The second task finds the self-targeting CNAME in the cache.
C7_CachedLoopReached ==
    /\ Len(cfg.domains) = 2
    /\ now = 0
    /\ Done(2)
    /\ Res(2).error.type = "RuntimeError"
    /\ DOMAIN asked = {Key("a", "CNAME")}

\* C8 as stated: in an attempt that reaches the DNSSEC probe, a non-empty
\* RRSIG or DNSKEY answer makes dnssec "signed-present" whatever the other
\* query's outcome.
C8_EitherPresentSigned ==
    \A w \in Workers : \A n \in Names :
        (/\ Done(w)
         /\ Res(w).error = NoError
         /\ (AskedKind(n, "RRSIG") = "ans" \/ AskedKind(tasks[w].domain, "DNSKEY") = "ans"))
        => Res(w).dnssec = "signed-present"

\* C8 amended: a non-empty RRSIG or DNSKEY answer makes dnssec
\* "signed-present" when the other query answered or failed with NoAnswer;
\* when the DNSKEY query fails with another error the result is "unknown"
\* even though RRSIG was present.
C8_PresentSignedUnlessProbeFails ==
    \A w \in Workers : \A n \in Names :
        (/\ Done(w)
         /\ Res(w).error = NoError
         /\ (AskedKind(n, "RRSIG") = "ans" \/ AskedKind(tasks[w].domain, "DNSKEY") = "ans"))
        => /\ (AskedKind(n, "RRSIG") \in Benign /\ AskedKind(tasks[w].domain, "DNSKEY") \in Benign)
                => Res(w).dnssec = "signed-present"
           /\ AskedKind(tasks[w].domain, "DNSKEY") \in ProbeFailures
                => Res(w).dnssec = "unknown"

C8_Witness ==
    \E w \in Workers : \E n \in Names :
        /\ Done(w)
        /\ AskedKind(n, "RRSIG") = "ans"
        /\ AskedKind(tasks[w].domain, "DNSKEY") = "NoAnswer"
        /\ Res(w).dnssec = "signed-present"

\* C9: dnssec is "unsigned" exactly when the attempt reached the probe and
\* both the RRSIG and the DNSKEY query were answered NoAnswer or empty.
C9_UnsignedIffBothAbsent ==
    \A w \in Workers :
        Res(w).dnssec = "unsigned"
        <=> /\ Done(w)
            /\ Res(w).error = NoError
            /\ \E n \in Names : AskedKind(n, "RRSIG") \in Absent
            /\ AskedKind(tasks[w].domain, "DNSKEY") \in Absent

C9_Witness ==
    \E w \in Workers : \E n \in Names :
        /\ Done(w)
        /\ AskedKind(n, "RRSIG") = "NoAnswer"
        /\ AskedKind(tasks[w].domain, "DNSKEY") = "NoAnswer"
        /\ Res(w).dnssec = "unsigned"

\* C10: an RRSIG or DNSKEY query failing otherwise than with NoAnswer does
\* not fail the domain: the only attempt succeeds, dnssec is "unknown", there
\* is no error and no retry, and the addresses, name servers and resolvable
\* are those of the earlier phases.
C10_ProbeFailureSwallowed ==
    \A w \in Workers : \A n \in Names :
        (/\ Done(w)
         /\ Res(w).error.type # "TimeoutError"
         /\ \/ AskedKind(n, "RRSIG") \in ProbeFailures
            \/ (Asked(n, "RRSIG") /\ AskedKind(tasks[w].domain, "DNSKEY") \in ProbeFailures))
        => /\ Res(w).error = NoError
           /\ Res(w).dnssec = "unknown"
           /\ tasks[w].attempts = 1
           /\ tasks[w].sleeps = 0
           /\ Res(w).metrics.retries = 0
           /\ Res(w).ip_addresses = ExpectedIps(n)
           /\ Res(w).name_servers = ExpectedNs(tasks[w].domain)
           /\ Res(w).resolvable = (Res(w).ip_addresses # <<>>)

C10_Witness ==
    \E w \in Workers : \E n \in Names :
        /\ Done(w)
        /\ cfg.retries > 0
        /\ AskedKind(n, "A") = "ans"
        /\ AskedKind(n, "RRSIG") = "ans"
        /\ AskedKind(tasks[w].domain, "DNSKEY") = "Timeout"
        /\ Res(w).resolvable
        /\ Res(w).dnssec = "unknown"

\* ---------------------------------------------------- claims: the TTL cache

CachedKeys == {Key(n, rtype) : n \in Names, rtype \in CachedTypes}

\* The entry of key k is within its TTL window / past it.
Fresh(k) == k \in DOMAIN cache /\ now <= cache[k].exp
Stale(k) == k \in DOMAIN cache /\ now > cache[k].exp

\* This step is a step of task w that sends the upstream query k.
Issues(w, k) ==
    /\ tasks'[w] # tasks[w]
    /\ tasks'[w].pc = "query"
    /\ Key(tasks'[w].qname, tasks'[w].qtype) = k

\* This step is a step of task w that begins with a cache lookup of k: the
\* CNAME of the domain when an attempt begins, A of the chased name after a
\* CNAME query found no alias, AAAA after the A query, NS after the AAAA query.
LooksUp(w, k) ==
    \/ /\ tasks[w].pc \in {"new", "acquire", "sleep"}
       /\ tasks'[w].pc \in {"query", "done"}
       /\ k = Key(tasks[w].domain, "CNAME")
    \/ /\ tasks[w].pc = "query" /\ tasks'[w].pc = "query" /\ tasks'[w] # tasks[w]
       /\ \/ /\ tasks[w].qtype = "CNAME"
             /\ tasks'[w].depth = tasks[w].depth
             /\ k = Key(tasks[w].name, "A")
          \/ tasks[w].qtype = "A" /\ k = Key(tasks[w].name, "AAAA")
          \/ tasks[w].qtype = "AAAA" /\ k = Key(tasks[w].domain, "NS")

\* The step of task w went on with the value stored under k.
UsesStored(w, k) ==
    LET val == cache[k].val
    IN CASE k[2] = "CNAME" ->
              IF val = tasks[w].domain
              THEN tasks'[w].pc = "done" /\ tasks'[w].result.error.type = "RuntimeError"
              ELSE /\ tasks'[w].pc = "query" => tasks'[w].depth >= 1
                   /\ tasks'[w].pc = "done" => tasks'[w].result.error.type = "RuntimeError"
                   /\ ~Fresh(Key(val, "CNAME")) => Issues(w, Key(val, "CNAME"))
         [] k[2] = "A" ->
              /\ Len(tasks'[w].ip_set) >= Len(val)
              /\ SubSeq(tasks'[w].ip_set, 1, Len(val)) = val
         [] k[2] = "AAAA" ->
              /\ Len(tasks'[w].ip_set) >= Len(val)
              /\ SubSeq(tasks'[w].ip_set, Len(tasks'[w].ip_set) - Len(val) + 1,
                        Len(tasks'[w].ip_set)) = val
              /\ tasks'[w].result.ip_addresses = tasks'[w].ip_set
         [] k[2] = "NS" ->
              tasks'[w].result.name_servers = val

\* This step is the answer "ans" of the upstream to the pending query k of w.
Stores(w, k) ==
    /\ tasks[w].pc = "query"
    /\ k = Key(tasks[w].qname, tasks[w].qtype)
    /\ tasks'[w] # tasks[w]
    /\ tasks'[w].result.error.type # "TimeoutError"
    /\ k \in DOMAIN asked' /\ asked'[k].kind = "ans"

\* C11: for every key (name, type) with type in A, AAAA, NS, CNAME: an answer
\* is stored with its TTL; no step sends an upstream query for a key whose
\* entry is within its TTL window, and a lookup of such a key goes on with the
\* stored value; a lookup of a key whose entry is absent or past its TTL
\* sends a new upstream query.
C11_CacheRoundTrip ==
    [][\A w \in Workers : \A k \in CachedKeys :
          /\ Stores(w, k) =>
                /\ k \in DOMAIN cache'
                /\ cache'[k].exp = now + AnswerTtl(asked'[k])
          /\ Fresh(k) => ~Issues(w, k)
          /\ LooksUp(w, k) =>
                /\ Fresh(k) => UsesStored(w, k)
                /\ ~Fresh(k) => Issues(w, k)]_vars

\* The second task for the same domain, started within the TTL window of the
\* entries the first one stored, is past the A and AAAA lookups and took both
\* values from the cache.
C11_Witness ==
    /\ Len(cfg.domains) = 2
    /\ now = 0
    /\ Done(1)
    /\ tasks[2].pc = "query" /\ tasks[2].qtype = "NS"
    /\ tasks[2].ip_set = <<Rec("a", "A"), Rec("a", "AAAA")>>
    /\ Fresh(Key("a", "A")) /\ Fresh(Key("a", "AAAA"))

\* The entry stored by the first task has expired: the second task has sent
\* the A query again.
C11_ExpiredReached ==
    /\ Len(cfg.domains) = 2
    /\ now = 1
    /\ Done(1)
    /\ Rec("a", "A") \in Elems(Res(1).ip_addresses)
    /\ tasks[2].pc = "query" /\ tasks[2].qtype = "A"
    /\ Key("a", "A") \notin DOMAIN cache

\* C12: SimpleTTLCache.get on an entry whose expiry time has passed returns
\* absent and removes that entry and no other; on an unexpired entry it
\* returns the value and changes nothing (as it does on a missing key).
C12_GetEvictsExpired ==
    \A k \in CachedKeys :
        LET after == CacheAfterGet(cache, k[1], k[2])
        IN /\ Stale(k) =>
                /\ ~CacheHit(cache, k[1], k[2])
                /\ DOMAIN after = DOMAIN cache \ {k}
                /\ \A j \in DOMAIN after : after[j] = cache[j]
           /\ Fresh(k) => CacheHit(cache, k[1], k[2]) /\ after = cache
           /\ k \notin DOMAIN cache => ~CacheHit(cache, k[1], k[2]) /\ after = cache

\* The expired A entry was evicted by the lookup of a retry (the A query is
\* pending again) while the AAAA entry, still within its TTL, stayed.
C12_Witness ==
    /\ now = 1
    /\ tasks[1].pc = "query" /\ tasks[1].qtype = "A" /\ tasks[1].attempt = 1
    /\ AskedKind("a", "A") = "ans"
    /\ Key("a", "A") \notin DOMAIN cache
    /\ Fresh(Key("a", "AAAA"))

\* -------------------------------------------------- claims: the retry loop

\* The last attempt of task w was ended by per_domain_timeout.
CutByTimeout(w) == Done(w) /\ tasks[w].last_error = "TimeoutError"

\* C13: an attempt that exceeds per_domain_timeout is a transient failure: a
\* domain whose attempts are ended by the timeout makes retries + 1 attempts,
\* with a backoff sleep between them, and ends with a timeout error and
\* metrics.retries = retries.
C13_PerDomainTimeoutRetried ==
    \A w \in Workers :
        CutByTimeout(w) =>
            /\ tasks[w].attempts = cfg.retries + 1
            /\ tasks[w].sleeps = cfg.retries
            /\ Res(w).metrics.retries = cfg.retries
            /\ Res(w).error.attempts = cfg.retries + 1

\* ------------------------------------- claims: failures are data, the hook

\* An exception escaped _resolve_one: asyncio.gather re-raises it and the
\* batch raises.  _resolve_one catches every Exception, so no step of the
\* program leads there.
Raised(w) == tasks[w].pc = "raised"

Failed(w) == Done(w) /\ tasks[w].last_error # "None"
AllDone == \A w \in Workers : Done(w)

\* Some task, or the batch itself, can take a step.
Progress ==
    TaskStarts \/ TaskAcquires \/ QueryAnswered \/ AttemptTimesOut \/ SleepEnds \/ Gather

\* C14: no failure of a domain (terminal error, exhausted retries, per-domain
\* timeout, CNAME loop, failing hook) makes the batch raise or get stuck or
\* lose a result: a failed domain ends with its error in its result, and the
\* batch returns every task's result, the other domains' included.
C14_FailuresAreData ==
    /\ \A w \in Workers :
          /\ ~Raised(w)
          /\ Failed(w) =>
                /\ Res(w).domain = cfg.domains[w]
                /\ Res(w).error # NoError
                /\ Res(w).error.type = tasks[w].last_error
                /\ Res(w).error.attempts >= 1
    /\ results = NotReturned => ENABLED Progress
    /\ (AllDone /\ results = NotReturned) => ENABLED Gather
    /\ results # NotReturned =>
          /\ Len(results) = Len(cfg.domains)
          /\ \A i \in Workers : Done(i) /\ results[i] = Res(i)

\* The first domain failed on its CNAME loop, under a hook that raises; the
\* second domain's result came back resolvable and without error.
C14_Witness ==
    /\ results # NotReturned
    /\ cfg.metrics_hook = "raises"
    /\ results[1].error.type = "RuntimeError"
    /\ results[2].error = NoError
    /\ results[2].resolvable

\* Every kind of failure comes back as data: NoAnswer (terminal), Timeout
\* after the last retry, and the per-domain timeout.
C14_OtherFailuresReached ==
    /\ results # NotReturned
    /\ cfg.retries = 1
    /\ results[1].error.type \in {"NoAnswer", "TimeoutError"}
    /\ results[2].error.type = "Timeout" /\ results[2].error.attempts = 2

HookGiven == cfg.metrics_hook # "none"

\* C15: a configured metrics hook is called exactly once per input domain,
\* only after the domain's retry loop has ended (never per attempt), on
\* success and on failure alike, with the domain and the finalized result:
\* metrics, trace and error are already filled in.
C15_HookOncePerDomain ==
    \A w \in Workers :
        /\ ~HookGiven => tasks[w].hook_calls = 0
        /\ (HookGiven /\ ~Done(w)) =>
              tasks[w].hook_calls = 0 /\ tasks[w].hook_arg = NoHookArg
        /\ (HookGiven /\ Done(w)) =>
              /\ tasks[w].hook_calls = 1
              /\ tasks[w].hook_arg.domain = cfg.domains[w]
              /\ tasks[w].hook_arg = Res(w)
              /\ tasks[w].hook_arg.metrics.retries = tasks[w].attempts - 1
              /\ tasks[w].hook_arg.trace # NoTrace
              /\ IF tasks[w].last_error = "None"
                 THEN tasks[w].hook_arg.error = NoError
                 ELSE /\ tasks[w].hook_arg.error.type = tasks[w].last_error
                      /\ tasks[w].hook_arg.error.attempts = tasks[w].attempts

\* One domain failed after a retry, the other succeeded: one call each.
C15_Witness ==
    /\ cfg.metrics_hook = "ok"
    /\ Done(1) /\ Done(2)
    /\ tasks[2].sleeps = 1 /\ Res(2).error.type = "Timeout"
    /\ Res(1).error = NoError
    /\ tasks[1].hook_calls = 1 /\ tasks[2].hook_calls = 1

\* C16: a metrics hook that raises changes nothing: the task does not raise,
\* its result is the finalized result the hook was called with, the batch
\* returns once every task is done, and it returns every task's result.
C16_RaisingHookSwallowed ==
    cfg.metrics_hook = "raises" =>
        /\ \A w \in Workers :
              /\ ~Raised(w)
              /\ Done(w) =>
                    /\ Res(w) = tasks[w].hook_arg
                    /\ Res(w).metrics.retries = tasks[w].attempts - 1
                    /\ (Res(w).error = NoError) <=> (tasks[w].last_error = "None")
        /\ (AllDone /\ results = NotReturned) => ENABLED Gather
        /\ results # NotReturned => \A i \in Workers : results[i] = Res(i)

C16_Witness ==
    /\ cfg.metrics_hook = "raises"
    /\ results # NotReturned
    /\ results[2].error = NoError /\ results[2].resolvable
    /\ results[1].error.type = "Timeout"
    /\ tasks[1].hook_calls = 1 /\ tasks[2].hook_calls = 1

\* The exception classes the retry policy names: NXDOMAIN, NoAnswer and the
\* CNAME-loop error; the resolver's Timeout, NoNameservers and any other
\* DNSException.
TerminalKinds == {"NXDOMAIN", "NoAnswer", "RuntimeError"}
TransientKinds == {"Timeout", "NoNameservers", "DNSException"}

C17_ExhaustedReached ==
    /\ cfg.retries = 2
    /\ Failed(1)
    /\ tasks[1].last_error = "NoNameservers"
    /\ tasks[1].attempts = 3 /\ tasks[1].sleeps = 2

\* This step ends an attempt of task w with success: the DNSSEC probe, the
\* last phase, is over and the attempt was not cut by per_domain_timeout.
SucceedsNow(w) ==
    /\ tasks[w].pc = "query"
    /\ tasks[w].qtype \in {"RRSIG", "DNSKEY"}
    /\ tasks'[w].pc = "done"
    /\ tasks'[w].last_error # "TimeoutError"

\* This step of task w ends the NS phase of an attempt.
NsPhaseEnds(w) ==
    /\ tasks'[w] # tasks[w]
    /\ tasks'[w].pc = "query"
    /\ tasks'[w].qtype = "RRSIG"

\* C18: when an attempt succeeds after k >= 1 failed attempts the recorded
\* error is cleared: error is null, metrics.retries = k, and resolvable,
\* ip_addresses, name_servers and dnssec are those of the successful attempt
\* (the addresses gathered by this attempt; the name servers its NS phase
\* found in the cache or was answered; the outcome of its probe).
C18_SuccessClearsError ==
    [][\A w \in Workers :
          /\ (SucceedsNow(w) /\ tasks[w].sleeps >= 1) =>
                /\ tasks'[w].result.error = NoError
                /\ tasks'[w].result.metrics.retries = tasks[w].sleeps
                /\ tasks'[w].attempts = tasks[w].sleeps + 1
                /\ tasks'[w].result.ip_addresses = tasks[w].ip_set
                /\ tasks'[w].result.resolvable = (tasks[w].ip_set # <<>>)
                /\ tasks'[w].result.name_servers = tasks[w].result.name_servers
                /\ tasks[w].rrsig_present =>
                      tasks'[w].result.dnssec \in {"signed-present", "unknown"}
                /\ (tasks[w].qtype = "DNSKEY" /\ ~tasks[w].rrsig_present) =>
                      tasks'[w].result.dnssec \in {"signed-present", "unsigned", "unknown"}
          /\ (NsPhaseEnds(w) /\ tasks[w].sleeps >= 1) =>
                /\ tasks'[w].result.ip_addresses = tasks'[w].ip_set
                /\ \/ tasks'[w].result.name_servers = <<>>
                   \/ /\ Key(tasks[w].domain, "NS") \in DOMAIN cache'
                      /\ tasks'[w].result.name_servers = cache'[Key(tasks[w].domain, "NS")].val]_vars

\* The third attempt succeeded after two failed ones.
C18_Witness ==
    /\ Done(1)
    /\ tasks[1].sleeps = 2
    /\ Res(1).error = NoError
    /\ Res(1).metrics.retries = 2
    /\ Res(1).resolvable
    /\ Res(1).dnssec = "signed-present"

\* The attempts task w has made: each attempt but the last one was followed
\* by one backoff sleep.
AttemptsMade(w) == tasks[w].sleeps + 1

\* C19: for every result (retries >= 0): between 1 and retries + 1 attempts
\* were made, metrics.retries = attempts - 1, and when error is not null
\* error.attempts is the number of attempts made and error.last_nameserver
\* equals metrics.resolved_by_nameserver and trace.nameserver.
C19_AttemptAccounting ==
    /\ \A w \in Workers :
          Done(w) =>
              /\ AttemptsMade(w) >= 1
              /\ AttemptsMade(w) <= cfg.retries + 1
              /\ tasks[w].attempts = AttemptsMade(w)
              /\ Res(w).metrics.retries = AttemptsMade(w) - 1
              /\ Res(w).error # NoError =>
                    /\ Res(w).error.attempts = AttemptsMade(w)
                    /\ Res(w).error.last_nameserver = Res(w).metrics.resolved_by_nameserver
                    /\ Res(w).error.last_nameserver = Res(w).trace.nameserver
    /\ results # NotReturned => \A i \in Workers : Done(i) /\ results[i] = Res(i)

\* A returned result with an error after three attempts, under a nameserver
\* list of two.
C19_Witness ==
    /\ results # NotReturned
    /\ cfg.retries = 2
    /\ cfg.nameservers = <<"ns1", "ns2">>
    /\ results[1].error.type = "Timeout"
    /\ results[1].error.attempts = 3
    /\ results[1].metrics.retries = 2
    /\ results[1].error.last_nameserver = "ns1"
    /\ results[1].trace.nameserver = "ns1"

\* C20: every result has resolvable = (ip_addresses is not empty), on the
\* failure path too: when the A and AAAA lookups were answered and the NS
\* lookup then fails (terminally or until the retries are used up), the
\* result carries the error, the addresses gathered before it, and
\* resolvable = TRUE when there is at least one address.
C20_ResolvableIffAddresses ==
    \A w \in Workers :
        Done(w) =>
            /\ Res(w).resolvable = (Res(w).ip_addresses # <<>>)
            /\ \A n \in Names :
                  (/\ AskedKind(n, "A") \in AnsKinds
                   /\ AskedKind(n, "AAAA") \in AnsKinds
                   /\ AskedKind(tasks[w].domain, "NS") \in ErrKinds \ {"NoAnswer"}
                   /\ Res(w).error.type # "TimeoutError")
                  => /\ Res(w).error.type = AskedKind(tasks[w].domain, "NS")
                     /\ Res(w).ip_addresses = ExpectedIps(n)
                     /\ Res(w).resolvable = (ExpectedIps(n) # <<>>)

\* Addresses were gathered, then the NS lookup failed terminally.
C20_Witness ==
    /\ Done(1)
    /\ AskedKind("a", "A") = "ans"
    /\ AskedKind("a", "AAAA") = "empty"
    /\ AskedKind("a", "NS") = "NXDOMAIN"
    /\ Res(1).error.type = "NXDOMAIN"
    /\ Res(1).resolvable

\* Addresses were gathered, then the NS lookup timed out on every attempt.
C20_ExhaustedReached ==
    /\ Done(1)
    /\ cfg.retries = 2
    /\ AskedKind("a", "A") = "ans"
    /\ AskedKind("a", "NS") = "Timeout"
    /\ Res(1).error.type = "Timeout" /\ Res(1).error.attempts = 3
    /\ Res(1).resolvable


\* The domains an HTTP request asks for: those of its query parameter when
\* it has one, else the value under "domains" of its JSON-object body.
Requested(req) ==
    IF req.query.given /\ req.query.segs # <<"">>
    THEN [t |-> "list", v |-> SplitStrip(req.query.segs)]
    ELSE IF req.body.json = "object" THEN req.body.domains ELSE NoJson

BatchRaises == cfg.concurrency < 0
Answered == response # NoResponse

\* C21: the dns/resolve endpoint answers 200 with one entry per requested
\* domain, in order, a failed domain's entry carrying its error; it answers
\* 400 when the domains parameter is missing, empty or not a list; it answers
\* 500 only when the batch operation itself raises.
C21_EndpointStatus ==
    Answered =>
        LET want == Requested(request)
        IN /\ (want.t # "list" \/ want.v = <<>>) => response.status = 400
           /\ response.status = 500 => BatchRaises
           /\ (want.t = "list" /\ want.v # <<>> /\ ~BatchRaises) =>
                 /\ response.status = 200
                 /\ Len(response.body) = Len(want.v)
                 /\ \A i \in 1..Len(want.v) :
                       /\ response.body[i].domain = want.v[i]
                       /\ Failed(i) => response.body[i].error.type = tasks[i].last_error

\* The same for requests whose body, when it is consulted, is a JSON object
\* or no JSON at all.
C21_ObjectBodies ==
    (Answered /\ ~ParseDomains(request).raised) => C21_EndpointStatus

\* A request answered 200 although one of its two domains failed.
C21_Witness ==
    /\ response.status = 200
    /\ Len(response.body) = 2
    /\ Failed(1) /\ ~Failed(2)
    /\ response.body[1].error.type = "Timeout"
    /\ response.body[2].error = NoError

\* A request without `domains` whose body is a JSON array or null is
\* answered 500 by the host.
C21_NonObjectBodyReached ==
    /\ response.status = 500
    /\ response.cause = "handler"
    /\ Requested(request) = NoJson
    /\ ~BatchRaises


\* The name the CNAME records the upstream gave lead to from name n, within
\* the remaining hops of the chase.
RECURSIVE ChasedFrom(_, _)
ChasedFrom(n, hops) ==
    IF hops = 0 \/ AskedKind(n, "CNAME") # "ans" THEN n
    ELSE ChasedFrom(asked[Key(n, "CNAME")].target, hops - 1)

FinalName(d) == ChasedFrom(d, MAX_CNAME_DEPTH)

\* C22: the A, AAAA and RRSIG queries and the A and AAAA cache entries are
\* for the final name of the CNAME chase; the NS and DNSKEY queries and the NS
\* cache entry are for the original domain; ip_addresses is the A answer
\* followed by the AAAA answer, both of the final name, and name_servers the
\* NS answer of the original domain.
C22_ChasedNameForAddresses ==
    LET final == [w \in Workers |-> FinalName(tasks[w].domain)]
    IN /\ \A w \in Workers :
             LET t == tasks[w]
             IN /\ (t.pc = "query" /\ t.qtype \in {"A", "AAAA", "RRSIG"}) =>
                       t.qname = final[w]
                /\ (t.pc = "query" /\ t.qtype \in {"NS", "DNSKEY"}) => t.qname = t.domain
                /\ t.result.ip_addresses \in {<<>>, ExpectedIps(final[w])}
                /\ t.result.name_servers \in {<<>>, ExpectedNs(t.domain)}
       /\ \A k \in DOMAIN cache :
             /\ k[2] \in {"A", "AAAA"} => \E w \in Workers : k[1] = final[w]
             /\ k[2] = "NS" => \E w \in Workers : k[1] = tasks[w].domain
             /\ k[2] \in CachedTypes

\* "a" is an alias of "b": addresses and RRSIG of "b", name servers and
\* DNSKEY of "a".
C22_Witness ==
    \E w \in Workers :
        /\ Done(w) /\ Res(w).error = NoError
        /\ tasks[w].domain = "a" /\ FinalName("a") = "b"
        /\ Res(w).ip_addresses = <<Rec("b", "A"), Rec("b", "AAAA")>>
        /\ Res(w).name_servers = <<Rec("a", "NS")>>
        /\ Asked("b", "A") /\ Asked("b", "AAAA") /\ Asked("b", "RRSIG")
        /\ Asked("a", "NS") /\ Asked("a", "DNSKEY")
        /\ ~Asked("a", "A") /\ ~Asked("a", "AAAA") /\ ~Asked("a", "RRSIG")
        /\ ~Asked("b", "NS") /\ ~Asked("b", "DNSKEY")
        /\ {Key("b", "A"), Key("b", "AAAA"), Key("a", "NS"), Key("a", "CNAME")}
              \subseteq DOMAIN cache


\* The CNAME lookups (cache or upstream) task w has made in its current
\* attempt: one per alias followed, and the pending one.
CnameLookups(w) ==
    tasks[w].depth + (IF tasks[w].pc = "query" /\ tasks[w].qtype = "CNAME" THEN 1 ELSE 0)

\* C23: an attempt makes at most MAX_CNAME_DEPTH CNAME lookups, whatever the
\* CNAME records (cycles of two names included); an attempt that has followed
\* MAX_CNAME_DEPTH aliases has raised nothing and is in its address phase or
\* later, with the last name reached.
C23_ChaseBounded ==
    \A w \in Workers :
        /\ CnameLookups(w) <= MAX_CNAME_DEPTH
        /\ tasks[w].depth = MAX_CNAME_DEPTH =>
              /\ tasks[w].pc = "query"
              /\ tasks[w].qtype \in {"A", "AAAA", "NS", "RRSIG", "DNSKEY"}
              /\ tasks[w].name = FinalName(tasks[w].domain)
              /\ tasks[w].qtype \in {"A", "AAAA"} => tasks[w].qname = tasks[w].name
              /\ tasks[w].attempts = tasks[w].sleeps + 1

\* "a" and "b" are aliases of each other: the first attempt gives up the
\* chase after 8 aliases and asks for the addresses of the name it reached.
C23_Witness ==
    \E w \in Workers :
        /\ AskedKind("a", "CNAME") = "ans" /\ asked[Key("a", "CNAME")].target = "b"
        /\ AskedKind("b", "CNAME") = "ans" /\ asked[Key("b", "CNAME")].target = "a"
        /\ tasks[w].domain = "a"
        /\ tasks[w].depth = MAX_CNAME_DEPTH
        /\ tasks[w].pc = "query" /\ tasks[w].qtype = "A" /\ tasks[w].qname = "a"
        /\ tasks[w].attempts = 1 /\ tasks[w].last_error = "None"

\* The same chase ends without error.
C23_ExhaustedSucceeds ==
    \E w \in Workers :
        /\ AskedKind("a", "CNAME") = "ans" /\ asked[Key("a", "CNAME")].target = "b"
        /\ AskedKind("b", "CNAME") = "ans" /\ asked[Key("b", "CNAME")].target = "a"
        /\ tasks[w].domain = "a"
        /\ Done(w) /\ Res(w).error = NoError
        /\ Res(w).ip_addresses = <<Rec("a", "A")>>


\* The place of a query type in the order of the phases of an attempt.
Rank(rtype) ==
    CASE rtype = "CNAME" -> 1
      [] rtype = "A" -> 2
      [] rtype = "AAAA" -> 3
      [] rtype = "NS" -> 4
      [] rtype = "RRSIG" -> 5
      [] rtype = "DNSKEY" -> 6
      [] OTHER -> 0

\* The phase task w is in before the step (0: its attempt has not begun).
RankBefore(w) == IF tasks[w].pc = "query" THEN Rank(tasks[w].qtype) ELSE 0

\* The key a phase of task w looks up, with the chased name as the step
\* leaves it.
PhaseKey(w, rtype) ==
    Key(IF rtype \in {"A", "AAAA"} THEN tasks'[w].name ELSE tasks[w].domain, rtype)

\* The outcome that ends the pending query of task w in this step is one
\* the phase does not survive.
FatalAnswer(w) ==
    LET k == Key(tasks[w].qname, tasks[w].qtype)
    IN /\ tasks[w].pc = "query"
       /\ tasks'[w] # tasks[w]
       /\ tasks'[w].last_error # "TimeoutError"
       /\ k \in DOMAIN asked'
       /\ \/ tasks[w].qtype \in {"CNAME", "NS"} /\ asked'[k].kind \in ProbeFailures
          \/ tasks[w].qtype \in {"A", "AAAA"} /\ asked'[k].kind \in ErrKinds

\* C24: within an attempt the phases run one after the other in the order
\* CNAME chase, A, AAAA, NS, RRSIG, DNSKEY: a task has one pending query at a
\* time, its next query belongs to a later phase (or to the next alias of
\* the chase), a phase between two queries is passed over only when the
\* cache served it, the DNSKEY query directly follows the RRSIG query, and an
\* answer that is fatal for its phase is followed by no query of that attempt.
C24_PhasesInOrder ==
    [][\A w \in Workers :
          /\ (tasks'[w] # tasks[w] /\ tasks'[w].pc = "query") =>
                /\ \/ Rank(tasks'[w].qtype) > RankBefore(w)
                   \/ /\ tasks[w].qtype = "CNAME" /\ tasks'[w].qtype = "CNAME"
                      /\ tasks'[w].depth > tasks[w].depth
                /\ \A rtype \in RTypes :
                      (Rank(rtype) > RankBefore(w) /\ Rank(rtype) < Rank(tasks'[w].qtype)) =>
                          /\ rtype \in CachedTypes
                          /\ Fresh(PhaseKey(w, rtype))
                /\ tasks'[w].qtype = "DNSKEY" =>
                      tasks[w].pc = "query" /\ tasks[w].qtype = "RRSIG"
          /\ FatalAnswer(w) => tasks'[w].pc \in {"sleep", "done"}
      ]_vars

\* An attempt that was answered in each of its six phases in turn.
C24_Witness ==
    \E w \in Workers :
        /\ Done(w) /\ Res(w).error = NoError
        /\ tasks[w].attempts = 1
        /\ \A rtype \in RTypes : Asked("a", rtype)
        /\ \A k \in DOMAIN asked : asked[k].kind \in Benign

\* An attempt whose NS query failed: no DNSSEC query was sent.
C24_FatalNsReached ==
    \E w \in Workers :
        /\ Done(w) /\ Res(w).error.type = "NXDOMAIN"
        /\ AskedKind("a", "NS") = "NXDOMAIN"
        /\ ~Asked("a", "RRSIG") /\ ~Asked("a", "DNSKEY")


\* 2 ** k
RECURSIVE Pow2(_)
Pow2(k) == IF k = 0 THEN 1 ELSE 2 * Pow2(k - 1)

\* C25: a task sleeps only after a failed attempt whose error is transient
\* and which is not the last one, and the sleep after the attempt of 0-based
\* index k lasts at least base * 2^k and less than 2 * base * 2^k; a task
\* whose loop has ended (terminal error, last attempt, success) slept once
\* before each attempt but the first and never after its last one.
C25_BackoffWindow ==
    \A w \in Workers :
        LET t == tasks[w]
        IN /\ t.pc = "sleep" =>
                 /\ t.last_error \in TransientKinds
                 /\ t.attempt < cfg.retries
                 /\ t.attempts = t.attempt + 1
                 /\ t.sleep_for >= BackoffBase * Pow2(t.attempt)
                 /\ t.sleep_for < 2 * BackoffBase * Pow2(t.attempt)
           /\ t.pc # "sleep" => t.sleep_for = 0
           /\ t.pc \in {"query", "done"} => t.sleeps = t.attempt
           /\ Done(w) => t.sleeps = t.attempts - 1

\* The sleep after the second failed attempt lasts 0.3 s (in [0.2, 0.4)).
C25_Witness ==
    \E w \in Workers :
        /\ tasks[w].pc = "sleep"
        /\ tasks[w].attempt = 1
        /\ tasks[w].last_error = "NoNameservers"
        /\ tasks[w].sleep_for = 3 * BackoffBase

\* Every duration of the window the random draws allow is slept.
C25_WindowCovered ==
    \E w \in Workers :
        /\ tasks[w].pc = "sleep"
        /\ tasks[w].attempt = 0
        /\ tasks[w].sleep_for = 2 * BackoffBase - 1


\* This step begins the work of a retry attempt of task w: the task leaves
\* its backoff sleep, or the semaphore it waited on after the sleep.
BeginsRetry(w) ==
    /\ tasks[w].pc \in {"sleep", "acquire"}
    /\ tasks[w].sleeps >= 1
    /\ tasks'[w].pc \in {"query", "done"}

\* C26: every retry attempt runs the whole sequence from scratch, whatever
\* the phase the previous attempt failed in: it starts with the CNAME lookup
\* of the original domain, with no alias followed and no address gathered,
\* and goes on from the cache entry of that key or from a new CNAME query.
C26_RetryFromScratch ==
    [][\A w \in Workers :
          BeginsRetry(w) =>
              LET k == Key(tasks[w].domain, "CNAME")
              IN /\ tasks'[w].attempts = tasks[w].sleeps + 1
                 /\ ~Fresh(k) =>
                       /\ Issues(w, k)
                       /\ tasks'[w].name = tasks[w].domain
                       /\ tasks'[w].depth = 0
                       /\ tasks'[w].ip_set = <<>>
                       /\ ~tasks'[w].rrsig_present
                 /\ Fresh(k) => UsesStored(w, k)
      ]_vars

\* The first attempt failed in the NS phase, after the chase and the address
\* phase: the retry asks for the CNAME of the domain again.
C26_Witness ==
    \E w \in Workers :
        /\ tasks[w].sleeps = 1 /\ tasks[w].attempts = 2
        /\ AskedKind("a", "CNAME") = "NoAnswer"
        /\ AskedKind("a", "A") = "ans"
        /\ AskedKind("a", "NS") = "Timeout"
        /\ tasks[w].pc = "query"
        /\ tasks[w].qtype = "CNAME" /\ tasks[w].qname = "a"
        /\ tasks[w].ip_set = <<>>

\* The first attempt failed in the chase, at the alias "b": the retry finds
\* the CNAME of the domain in the cache and asks for the CNAME of "b" again.
C26_CachedAliasReached ==
    \E w \in Workers :
        /\ tasks[w].sleeps = 1 /\ tasks[w].attempts = 2
        /\ AskedKind("a", "CNAME") = "ans" /\ asked[Key("a", "CNAME")].target = "b"
        /\ AskedKind("b", "CNAME") = "Timeout"
        /\ Fresh(Key("a", "CNAME"))
        /\ tasks[w].pc = "query"
        /\ tasks[w].qtype = "CNAME" /\ tasks[w].qname = "b"


\* The expiry of an entry stored now: the answer's TTL when it carries one,
\* else the batch's cache_ttl_default.
ExpiryWithTtl ==
    now + (IF upstream.ttl = NoTTL THEN cfg.cache_ttl_default ELSE upstream.ttl)
ExpiryByDefault == now + cfg.cache_ttl_default

\* This step is a step of task w in which its pending query for k was
\* answered with records (they show in what the task has gathered).
AnsweredWithRecords(w, k) ==
    /\ tasks[w].pc = "query"
    /\ k = Key(tasks[w].qname, tasks[w].qtype)
    /\ tasks'[w] # tasks[w]
    /\ tasks'[w].pc = "query"
    /\ \/ /\ k[2] = "A"
          /\ Len(tasks'[w].ip_set) >= 1
          /\ tasks'[w].ip_set[1] = Rec(k[1], "A")
       \/ /\ k[2] = "AAAA"
          /\ Len(tasks'[w].result.ip_addresses) >= 1
          /\ tasks'[w].result.ip_addresses[Len(tasks'[w].result.ip_addresses)]
                = Rec(k[1], "AAAA")
       \/ /\ k[2] = "NS"
          /\ tasks'[w].result.name_servers = <<Rec(k[1], "NS")>>

\* C27: an entry expires at the time it was set plus the answer's TTL, or
\* plus the batch's cache_ttl_default when the answer carries no usable TTL
\* (an empty NS answer has none); a set on an existing key replaces its value
\* and its expiry: after a step in which an answer with records arrived the
\* entry is that answer with that expiry, whatever it was before, and every
\* entry a step creates or changes is an answer set at the time of the step.
C27_SetStampsExpiry ==
    [][/\ \A w \in Workers : \A k \in CachedKeys :
             AnsweredWithRecords(w, k) =>
                 /\ k \in DOMAIN cache'
                 /\ cache'[k] = [exp |-> ExpiryWithTtl, val |-> <<Rec(k[1], k[2])>>]
       /\ \A k \in DOMAIN cache' :
             (k \notin DOMAIN cache \/ cache'[k] # cache[k]) =>
                 \/ cache'[k] = [exp |-> ExpiryWithTtl, val |-> <<Rec(k[1], k[2])>>]
                 \/ k[2] = "NS" /\ cache'[k] = [exp |-> ExpiryByDefault, val |-> <<>>]
      ]_vars

\* Both tasks asked for the name servers before either was answered: the
\* first answer was stored with its TTL, the second one, empty, replaced its
\* value and its expiry at the same time of the clock.
C27_Witness ==
    /\ cfg.concurrency = 2 /\ now = 0 /\ upstream.ttl = 0
    /\ Key("a", "NS") \in DOMAIN cache
    /\ cache[Key("a", "NS")] = [exp |-> cfg.cache_ttl_default, val |-> <<>>]
    /\ Res(1).name_servers = <<Rec("a", "NS")>>
    /\ tasks[1].pc = "query" /\ tasks[1].qtype = "DNSKEY"
    /\ Res(2).name_servers = <<>>
    /\ tasks[2].pc = "query" /\ tasks[2].qtype = "RRSIG"

\* An answer without TTL is stored with the batch's default.
C27_DefaultTtlReached ==
    /\ upstream.ttl = NoTTL /\ now = 1
    /\ Key("a", "A") \in DOMAIN cache
    /\ cache[Key("a", "A")] = [exp |-> 1 + cfg.cache_ttl_default, val |-> <<Rec("a", "A")>>]


\* The tasks that hold no permit: not started, waiting for the semaphore,
\* in a backoff sleep, or finished.
Outside == {w \in Workers : tasks[w].pc \in {"new", "acquire", "sleep", "done"}}

\* C28: a permit is held exactly while an attempt runs: the free permits
\* are the concurrency less the tasks inside an attempt, so that a task that
\* sleeps, waits or has ended (by success, error or timeout) holds none, a
\* waiting task can take a permit as soon as one is free, and all the permits
\* are free when the batch ends.
C28_PermitHeldOnlyInAttempt ==
    /\ sem = cfg.concurrency - Cardinality(InAttempt)
    /\ Workers = InAttempt \cup Outside
    /\ sem >= 0
    /\ (AllStarted /\ sem > 0 /\ \E w \in Workers : tasks[w].pc = "acquire") =>
          ENABLED TaskAcquires
    /\ (AllDone \/ results # NotReturned) => sem = cfg.concurrency

\* With one permit the second domain runs while the first one sleeps between
\* two attempts.
C28_Witness ==
    /\ cfg.concurrency = 1
    /\ cfg.domains = <<"a", "b">>
    /\ tasks[1].pc = "sleep" /\ tasks[1].sleep_for > 0
    /\ tasks[2].pc = "query"
    /\ sem = 0

\* The batch ended with a domain whose attempt timed out: every permit is
\* free.
C28_AllFreeReached ==
    /\ results # NotReturned
    /\ cfg.concurrency = 2
    /\ sem = 2
    /\ \E w \in Workers : Res(w).error.type = "TimeoutError"


\* C29: under fair scheduling, with a resolver whose every query returns or
\* fails, every task's retry loop ends and the batch returns.
C29_BatchReturns == <>(AllDone /\ results # NotReturned)

\* The batch returned after a domain used up its retries while the other
\* waited for the only permit.
C29_Witness ==
    /\ results # NotReturned
    /\ cfg.concurrency = 1 /\ cfg.retries >= 1
    /\ \E w \in Workers :
          /\ tasks[w].sleeps = cfg.retries
          /\ Res(w).error.type = "Timeout"
    /\ completed = <<2, 1>>


\* C30: a result with an error has dnssec "unknown": the verdict of the
\* probe is written only by an attempt that then succeeds, and the error of
\* an earlier attempt is cleared by that success.
C30_ErrorMeansDnssecUnknown ==
    /\ \A w \in Workers :
          /\ (Done(w) /\ Res(w).error # NoError) => Res(w).dnssec = "unknown"
          /\ Res(w).dnssec # "unknown" => Done(w) /\ Res(w).error = NoError
    /\ results # NotReturned =>
          \A i \in 1..Len(results) :
              results[i].error # NoError => results[i].dnssec = "unknown"

\* A domain that failed with a timeout on a retry, after its addresses were
\* found.
C30_Witness ==
    \E w \in Workers :
        /\ results # NotReturned
        /\ results[w].error.type = "Timeout"
        /\ results[w].error.attempts >= 2
        /\ results[w].ip_addresses # <<>>
        /\ results[w].dnssec = "unknown"

\* A domain cut by the per-domain timeout while its DNSKEY query was pending,
\* after an RRSIG answer with records.
C30_CutInProbeReached ==
    \E w \in Workers :
        /\ Done(w)
        /\ Res(w).error.type = "TimeoutError"
        /\ AskedKind(tasks[w].domain, "RRSIG") = "ans"
        /\ ~Asked(tasks[w].domain, "DNSKEY")
        /\ Res(w).dnssec = "unknown"


\* ------------------------------------------ claims: what the cache holds

\* The upstream's outcome out to a query of type rtype leaves nothing to
\* store: an exception, or an answer without records (the name-server phase
\* stores its answer whatever it holds).
Negative(out, rtype) ==
    \/ out.kind \in ErrKinds
    \/ out.kind = "empty" /\ rtype # "NS"

\* The outcome ends the attempt of the phase rtype.
EndsAttempt(out, rtype) ==
    /\ out.kind \in ErrKinds
    /\ ~(out.kind = "NoAnswer" /\ rtype \in {"CNAME", "NS"})

\* This step is a step of task w whose pending query was k.
Pending(w, k) ==
    /\ tasks[w].pc = "query"
    /\ k = Key(tasks[w].qname, tasks[w].qtype)
    /\ tasks'[w] # tasks[w]

\* The step wrote no cache entry: every entry after it was there before it,
\* unchanged, and an entry it removed was past its TTL (the lookup of the
\* next phase evicts it).
NoCacheWrite ==
    /\ \A j \in DOMAIN cache' : j \in DOMAIN cache /\ cache'[j] = cache[j]
    /\ \A j \in DOMAIN cache \ DOMAIN cache' : Stale(j)

\* C31: the cache holds only keys of type A, AAAA, NS or CNAME, with the
\* records of an answer (never an empty A, AAAA or CNAME value); a step in
\* which an RRSIG or DNSKEY query is answered leaves the cache as it is; a
\* step in which a query fails or is answered without records (A, AAAA,
\* CNAME) writes no entry, and leaves the cache as it is when the failure
\* ends the attempt; the key of such an outcome is never in the cache, and
\* every later lookup of it sends the upstream query again.
C31_NegativeNeverCached ==
    [][/\ \A k \in DOMAIN cache' :
             /\ k[2] \in CachedTypes
             /\ k[2] \in {"A", "AAAA"} => cache'[k].val = <<Rec(k[1], k[2])>>
             /\ k[2] = "CNAME" => cache'[k].val \in Names
       /\ \A k \in DOMAIN asked' :
             Negative(asked'[k], k[2]) => k \notin DOMAIN cache'
       /\ \A w \in Workers : \A k \in DOMAIN asked' :
             /\ (Pending(w, k) /\ k[2] \in {"RRSIG", "DNSKEY"}) => cache' = cache
             /\ (Pending(w, k) /\ Negative(asked'[k], k[2])) =>
                   /\ NoCacheWrite
                   /\ EndsAttempt(asked'[k], k[2]) => cache' = cache
             /\ (k \in DOMAIN asked /\ Negative(asked[k], k[2]) /\ LooksUp(w, k)) =>
                   Issues(w, k)
      ]_vars

\* The second attempt of a domain asks for its A records again: the first
\* attempt was answered no CNAME, an empty A answer and AAAA records, and
\* failed on the name servers; only the AAAA answer is in the cache.
C31_Witness ==
    \E w \in Workers :
        /\ tasks[w].attempt = 1
        /\ tasks[w].pc = "query" /\ tasks[w].qtype = "A" /\ tasks[w].qname = "a"
        /\ AskedKind("a", "CNAME") = "NoAnswer"
        /\ AskedKind("a", "A") = "empty"
        /\ AskedKind("a", "AAAA") = "ans"
        /\ AskedKind("a", "NS") = "Timeout"
        /\ DOMAIN cache = {Key("a", "AAAA")}

\* A domain that succeeded with RRSIG and DNSKEY records: neither is in the
\* cache, the answers of the other four phases are.
C31_ProbeNotCachedReached ==
    \E w \in Workers :
        /\ Done(w) /\ Res(w).dnssec = "signed-present"
        /\ AskedKind("a", "RRSIG") = "ans" /\ AskedKind("a", "DNSKEY") = "ans"
        /\ AskedKind("a", "CNAME") = "ans"
        /\ {k[2] : k \in DOMAIN cache} = CachedTypes


\* ------------------------------- claims: the result across failed attempts

\* This step ends an attempt of task w with a failure.
AttemptFails(w) ==
    /\ tasks[w].pc = "query"
    /\ tasks'[w].pc \in {"sleep", "done"}
    /\ tasks'[w].last_error # "None"

\* This step of task w completes the address phase / the name-server phase
\* of its attempt.
CompletesAddr(w) ==
    /\ tasks'[w].pc = "query"
    /\ tasks'[w].qtype \in {"NS", "RRSIG"}
    /\ tasks[w].pc = "query" => tasks[w].qtype \in {"CNAME", "A", "AAAA"}

CompletesNs(w) ==
    /\ tasks'[w].pc = "query"
    /\ tasks'[w].qtype = "RRSIG"
    /\ tasks[w].pc = "query" => tasks[w].qtype \in {"CNAME", "A", "AAAA", "NS"}

\* C32: a failed attempt leaves what earlier phases and earlier attempts
\* wrote into the result: the step that ends an attempt with a failure
\* changes neither ip_addresses nor name_servers nor dnssec, nothing resets
\* them before or at the start of the next attempt, and they change only in
\* a step that completes the address phase (ip_addresses becomes the
\* addresses that attempt gathered) or the name-server phase; so a domain
\* that ends with an error carries the values of the latest attempt that
\* completed the phase, and resolvable is computed from those addresses.
C32_FailureKeepsResult ==
    [][\A w \in Workers :
          LET r == tasks[w].result
              r2 == tasks'[w].result
          IN /\ AttemptFails(w) =>
                   /\ r2.ip_addresses = r.ip_addresses
                   /\ r2.name_servers = r.name_servers
                   /\ r2.dnssec = r.dnssec
                   /\ tasks'[w].pc = "done" =>
                         /\ r2.error.type = tasks'[w].last_error
                         /\ r2.resolvable = (r.ip_addresses # <<>>)
             /\ r2.ip_addresses # r.ip_addresses =>
                   CompletesAddr(w) /\ r2.ip_addresses = tasks'[w].ip_set
             /\ r2.name_servers # r.name_servers => CompletesNs(w)
             /\ r2.domain = r.domain
      ]_vars

\* The second attempt has not reached its address phase (its CNAME query is
\* pending) and the result still holds the addresses the first attempt
\* wrote before its name-server query timed out.
C32_Witness ==
    \E w \in Workers :
        /\ tasks[w].attempt = 1
        /\ tasks[w].pc = "query" /\ tasks[w].qtype = "CNAME"
        /\ tasks[w].ip_set = <<>>
        /\ AskedKind("a", "NS") = "Timeout"
        /\ Res(w).ip_addresses = <<Rec("a", "A"), Rec("a", "AAAA")>>

\* The domain ended on its second attempt, cut by the per-domain timeout
\* while the A query was pending again: the result has the error and the
\* addresses of the first attempt, and is resolvable.
C32_FinalReached ==
    \E w \in Workers :
        /\ Done(w)
        /\ Res(w).error.type = "TimeoutError" /\ Res(w).error.attempts = 2
        /\ AskedKind("a", "NS") = "Timeout"
        /\ now = 1
        /\ Key("a", "A") \notin DOMAIN cache
        /\ Res(w).ip_addresses = <<Rec("a", "A"), Rec("a", "AAAA")>>
        /\ Res(w).resolvable

\* The attempt was cut during the DNSSEC probe: the name servers its
\* name-server phase wrote are in the failed result.
C32_NameServersKeptReached ==
    \E w \in Workers :
        /\ Done(w)
        /\ Res(w).error.type = "TimeoutError"
        /\ Res(w).name_servers = <<Rec("a", "NS")>>
        /\ Res(w).dnssec = "unknown"


\* --------------------------------- claims: the cache shared by the workers

\* Every entry is the value and the expiry of one store: the records of an
\* answer with an expiry of its TTL after some time up to now, or the empty
\* name-server answer with the default TTL.
WholeEntries ==
    \A k \in DOMAIN cache :
        \/ /\ cache[k].val = <<Rec(k[1], k[2])>>
           /\ cache[k].exp - ExpiryWithTtl + now \in 0..now
        \/ /\ k[2] = "NS"
           /\ cache[k].val = <<>>
           /\ cache[k].exp - cfg.cache_ttl_default \in 0..now

\* Tasks w and v both wait for the upstream's answer to the same query.
BothPending(w, v) ==
    /\ w # v
    /\ tasks[w].pc = "query" /\ tasks[v].pc = "query"
    /\ tasks[w].qname = tasks[v].qname /\ tasks[w].qtype = tasks[v].qtype

\* C33: the workers share the cache without a lock and without single
\* flight: a step is the run of one task and no other task changes in it;
\* every entry a task can see is the value and expiry of one store; a lookup
\* of a key with an entry within its TTL goes on with the stored value; a
\* lookup of a key without such an entry sends the task's own upstream query,
\* also while another task's query for the same key is pending, and that
\* other query stays pending; and when an answer with records arrives the
\* entry becomes the value and expiry of this store, whatever an earlier
\* store of another task left.
C33_SharedCacheNoSingleFlight ==
    [][/\ WholeEntries'
       /\ \A w \in Workers :
             /\ tasks'[w] # tasks[w] =>
                   \A v \in Workers \ {w} : tasks'[v] = tasks[v]
             /\ \A k \in CachedKeys :
                   /\ (LooksUp(w, k) /\ Fresh(k)) => UsesStored(w, k)
                   /\ (LooksUp(w, k) /\ ~Fresh(k)) =>
                         /\ Issues(w, k)
                         /\ \A v \in Workers \ {w} :
                               (tasks[v].pc = "query"
                                  /\ Key(tasks[v].qname, tasks[v].qtype) = k)
                               => BothPending(w, v)'
                   /\ AnsweredWithRecords(w, k) =>
                         /\ k \in DOMAIN cache'
                         /\ cache'[k].val = <<Rec(k[1], k[2])>>
                         /\ cache'[k].exp = ExpiryWithTtl
      ]_vars

\* Both tasks asked for the name servers before either had stored its
\* answer: the empty answer of the second task was stored first (with the
\* default TTL), the records of the first task came later and are the entry,
\* with their own, earlier expiry.
C33_Witness ==
    /\ cfg.concurrency = 2 /\ now = 0 /\ upstream.ttl = 0
    /\ Key("a", "NS") \in DOMAIN cache
    /\ cache[Key("a", "NS")] = [exp |-> 0, val |-> <<Rec("a", "NS")>>]
    /\ Res(1).name_servers = <<Rec("a", "NS")>>
    /\ Res(2).name_servers = <<>>
    /\ tasks[1].pc = "query" /\ tasks[1].qtype = "RRSIG"
    /\ tasks[2].pc = "query" /\ tasks[2].qtype = "DNSKEY"

\* Two upstream queries for the same uncached key are pending at once.
C33_BothPendingReached ==
    /\ BothPending(1, 2)
    /\ tasks[1].qtype = "A"
    /\ Key("a", "A") \notin DOMAIN cache

\* The second task's A query is still pending when the entry the first task
\* stored has expired; its answer will replace that entry.
C33_StaleWhilePendingReached ==
    /\ tasks[2].pc = "query" /\ tasks[2].qtype = "A"
    /\ Stale(Key("a", "A"))
    /\ tasks[1].ip_set = <<Rec("a", "A")>>
    /\ tasks[1].pc = "query" /\ tasks[1].qtype = "AAAA"

====
